---- MODULE Spec2Model ----
(***************************************************************************)
(* A model of pandas/io/common.py: the BotoFileLikeReader adapter over a   *)
(* cyclic boto key, the scheme classifiers _is_url / _is_s3_url, the       *)
(* stream normaliser maybe_read_encoded_stream and the resolver            *)
(* get_filepath_or_buffer.                                                 *)
(*                                                                         *)
(* Byte strings and text are sequences of numbers (byte values, code       *)
(* points).  Python's None is the string "None".                           *)
(***************************************************************************)
EXTENDS Integers, Sequences, FiniteSets, TLC

VARIABLES
    PY3,            \* compat.PY3: the runtime has distinct bytes and text
    encoding,       \* BotoFileLikeReader.encoding
    content,        \* the bytes of the S3 object behind the key
    cuts,           \* offsets at which the transport ends a chunk
    resp,           \* the key's response handle: "none" or "open"
    pos,            \* offset of the response handle in content
    finished_read,  \* BotoFileLikeReader.finished_read
    buffer,         \* BotoFileLikeReader.buffer
    lines,          \* BotoFileLikeReader.lines
    nativeReads,    \* number of calls of the key's native read
    closed,         \* the key's native close has completed at least once
    fetched,        \* every byte the native read has returned, in order
    lineText,       \* the text readline() has appended to buffer, in order
    lineBytes,      \* the bytes readline() itself has fetched, in order
    readAfterClose, \* a native read was issued on a key closed before
    closeCalled,    \* close() has been called on the adapter
    lastOp,         \* the adapter operation called last
    lastResult,     \* what it returned or raised
    pre,            \* the adapter's fields when that operation was called
    delivered,      \* the values readline()/next() returned, in order
    eos,            \* readline()/next() has signalled end-of-sequence
    onlyReadline,   \* no operation other than readline() was called so far
    rPhase,         \* the module-level call: "idle", "returned" or "raised"
    rOp,            \* the module-level function called
    rSpec,          \* its filepath_or_buffer argument
    rEncoding,      \* its encoding argument
    rCompression,   \* its compression argument
    rCalls,         \* the calls it made to its collaborators, in order
    rResult         \* what it returned or raised

adapterVars == <<PY3, encoding, content, cuts, resp, pos, finished_read, buffer,
                 lines, nativeReads, closed, fetched, lineText, lineBytes,
                 readAfterClose,
                 closeCalled, lastOp, lastResult, pre, delivered, eos,
                 onlyReadline>>

resolverVars == <<rPhase, rOp, rSpec, rEncoding, rCompression, rCalls, rResult>>

vars == <<adapterVars, resolverVars>>

----------------------------------------------------------------------------
(* Bounds *)

MaxLen == 3           \* longest generated object content, in bytes
MaxDepth == 12        \* deepest chain of nested readline() calls followed
MaxNativeReads == 12  \* native reads after which no further call is made

(* Program constants *)

NL == 10              \* "\n"
ChunkSize == 8192     \* self.read(8192)

None == "None"

(* Bytes the generated contents are made of: "\n", "a", and the two bytes  *)
(* 0xC3 0xA9 that encode U+00E9 in UTF-8.                                  *)
Bytes == {NL, 97, 195, 169}

(* b"a\nbb\nccc" *)
ExampleContent == <<97, NL, 98, 98, NL, 99, 99, 99>>

Min2(a, b) == IF a < b THEN a ELSE b

IsPrefix(s, t) == Len(s) <= Len(t) /\ SubSeq(t, 1, Len(s)) = s

----------------------------------------------------------------------------
(* bytes.decode(encoding, errors) for UTF-8, over one- and two-byte        *)
(* sequences: a byte below 0x80 is its own code point; a lead byte         *)
(* 0xC2..0xDF followed by a continuation byte 0x80..0xBF is one code       *)
(* point; anything else is undecodable ('strict' raises, 'replace' puts    *)
(* U+FFFD).                                                                *)

IsLead(b) == b >= 194 /\ b <= 223
IsCont(b) == b >= 128 /\ b <= 191

RECURSIVE DecodeFrom(_, _, _, _)
DecodeFrom(bytes, i, errors, acc) ==
    IF i > Len(bytes) THEN [ok |-> TRUE, text |-> acc]
    ELSE IF bytes[i] < 128
         THEN DecodeFrom(bytes, i + 1, errors, Append(acc, bytes[i]))
    ELSE IF IsLead(bytes[i]) /\ i < Len(bytes) /\ IsCont(bytes[i + 1])
         THEN DecodeFrom(bytes, i + 2, errors,
                         Append(acc, (bytes[i] - 192) * 64 + (bytes[i + 1] - 128)))
    ELSE IF errors = "strict" THEN [ok |-> FALSE, text |-> <<>>]
    ELSE DecodeFrom(bytes, i + 1, errors, Append(acc, 65533))

decode(bytes, errors) == DecodeFrom(bytes, 1, errors, <<>>)

(* str.split("\n"): the segments between newlines, at least one segment.   *)
RECURSIVE SplitFrom(_, _, _, _)
SplitFrom(text, i, cur, acc) ==
    IF i > Len(text) THEN Append(acc, cur)
    ELSE IF text[i] = NL THEN SplitFrom(text, i + 1, <<>>, Append(acc, cur))
    ELSE SplitFrom(text, i + 1, Append(cur, text[i]), acc)

(* a split that lists the complete segments newest first *)
split_newest_first(text) ==
    LET p == SplitFrom(text, 1, <<>>, <<>>)
    IN [i \in 1..Len(p) |-> IF i < Len(p) THEN p[Len(p) - i] ELSE p[i]]

split(text) == SplitFrom(text, 1, <<>>, <<>>)

Front(s) == SubSeq(s, 1, Len(s) - 1)
Last(s) == s[Len(s)]

(* "{}{}".format(self.buffer, chunk): on a runtime without distinct bytes  *)
(* and text the format string is a byte string, and formatting a unicode   *)
(* chunk into it encodes the chunk as ASCII, which raises on any code      *)
(* point above 0x7F.                                                       *)
format_fails(py3, enc, chunk) ==
    ~py3 /\ enc # None /\ \E i \in 1..Len(chunk) : chunk[i] > 127

----------------------------------------------------------------------------
(* Results of the adapter's operations *)

NoResult == [kind |-> "none", val |-> <<>>]
BytesResult(b) == [kind |-> "bytes", val |-> b]
TextResult(t) == [kind |-> "text", val |-> t]
Raised(e) == [kind |-> e, val |-> <<>>]

(* The adapter and its key as one record *)
Obj == [finished_read |-> finished_read, buffer |-> buffer, lines |-> lines,
        resp |-> resp, pos |-> pos, nativeReads |-> nativeReads,
        closed |-> closed, fetched |-> fetched, lineText |-> lineText,
        lineBytes |-> lineBytes,
        readAfterClose |-> readAfterClose, closeCalled |-> closeCalled]

(* The end of the chunk the transport delivers from offset p. *)
ChunkEnd(p) ==
    LET later == {c \in cuts : c > p}
    IN IF later = {} THEN Len(content)
       ELSE CHOOSE c \in later : \A d \in later : c <= d

(* The key's native close: drops the response handle. *)
native_close(s, ok) ==
    IF s.resp = "open" /\ ~ok
    THEN [obj |-> s, res |-> Raised("NativeCloseError")]
    ELSE [obj |-> [s EXCEPT !.resp = "none", !.closed = TRUE],
          res |-> NoResult]

(* BotoFileLikeReader.close without the flag *)
close_without_flag(s, ok) == native_close([s EXCEPT !.closeCalled = TRUE], ok)

(* a close that sets the flag after the native close has returned *)
close_flag_after_delegate(s, ok) ==
    LET r == native_close([s EXCEPT !.closeCalled = TRUE], ok)
    IN IF r.res.kind = "NativeCloseError" THEN r
       ELSE [obj |-> [r.obj EXCEPT !.finished_read = TRUE], res |-> r.res]

(* a close that, called on a finished adapter, drops what is buffered *)
close_again_clears_buffers(s, ok) ==
    native_close([s EXCEPT !.finished_read = TRUE, !.closeCalled = TRUE,
                           !.buffer = IF s.finished_read THEN <<>> ELSE @,
                           !.lines = IF s.finished_read THEN <<>> ELSE @], ok)

(* BotoFileLikeReader.close *)
close(s, ok) ==
    native_close([s EXCEPT !.finished_read = TRUE, !.closeCalled = TRUE], ok)

(* The key's native read: re-opens the object from byte zero when the      *)
(* handle is gone, returns at most size bytes of the current chunk, and    *)
(* closes the key (through the overridden close) when no data is left.     *)
native_read(s, size) ==
    LET s1 == IF s.resp = "none"
              THEN [s EXCEPT !.resp = "open", !.pos = 0,
                             !.readAfterClose = @ \/ s.closed]
              ELSE s
        n == Min2(size, ChunkEnd(s1.pos) - s1.pos)
        data == SubSeq(content, s1.pos + 1, s1.pos + n)
        s2 == [s1 EXCEPT !.pos = @ + n, !.nativeReads = @ + 1,
                         !.fetched = @ \o data]
    IN IF data = <<>> THEN [obj |-> close(s2, TRUE).obj, data |-> data]
       ELSE [obj |-> s2, data |-> data]

(* BotoFileLikeReader.read without the finished_read test *)
read_unguarded(s, size) == native_read(s, size)

(* BotoFileLikeReader.read *)
read(s, size) ==
    IF s.finished_read THEN [obj |-> s, data |-> <<>>]
    ELSE native_read(s, size)

(* readline, a line is pending: hand out the first of lines. *)
take_line(s) ==
    [obj |-> [s EXCEPT !.lines = Tail(@)], res |-> TextResult(Head(s.lines))]

(* drain that hands out the residual buffer without emptying it *)
drain_keeps_buffer(s) ==
    IF s.buffer # <<>> THEN [obj |-> s, res |-> TextResult(s.buffer)]
    ELSE [obj |-> s, res |-> Raised("StopIteration")]

(* a drain that re-arms the adapter when it signals the end *)
drain_rewinds(s) ==
    IF s.buffer # <<>>
    THEN [obj |-> [s EXCEPT !.buffer = <<>>], res |-> TextResult(s.buffer)]
    ELSE [obj |-> [s EXCEPT !.finished_read = FALSE], res |-> Raised("StopIteration")]

(* readline, no line pending and the read finished: hand out the residual  *)
(* buffer, or signal the end of the sequence.                              *)
drain(s) ==
    IF s.buffer # <<>>
    THEN [obj |-> [s EXCEPT !.buffer = <<>>], res |-> TextResult(s.buffer)]
    ELSE [obj |-> s, res |-> Raised("StopIteration")]

(* BotoFileLikeReader.readline; depth counts the nested calls left. *)
RECURSIVE readline(_, _)
readline(s, depth) ==
    IF s.lines # <<>> THEN take_line(s)
    ELSE IF s.finished_read THEN drain(s)
    ELSE IF depth = 0 THEN [obj |-> s, res |-> Raised("RecursionError")]
    ELSE LET chunk == read(s, ChunkSize)
             r == [obj |-> [chunk.obj EXCEPT !.lineBytes = @ \o chunk.data],
                   data |-> chunk.data]
             dec == IF encoding # None THEN decode(r.data, "strict")
                    ELSE [ok |-> TRUE, text |-> r.data]
         IN IF ~dec.ok THEN [obj |-> r.obj, res |-> Raised("UnicodeDecodeError")]
            ELSE IF format_fails(PY3, encoding, dec.text)
            THEN [obj |-> r.obj, res |-> Raised("UnicodeEncodeError")]
            ELSE LET split_buffer == split(s.buffer \o dec.text)
                     filled == [r.obj EXCEPT !.lines = @ \o Front(split_buffer),
                                             !.buffer = Last(split_buffer),
                                             !.lineText = @ \o dec.text]
                 \* the nested call runs on the value of filled, computed once
                 IN CHOOSE out \in {readline(t, depth - 1) : t \in {filled}} : TRUE

----------------------------------------------------------------------------
(* Specifiers.  A string is a sequence of tokens: a word made of scheme    *)
(* characters, ":", "//", a network location, path pieces.  Anything else  *)
(* passed as filepath_or_buffer is a buffer object.                        *)

Str(toks) == [type |-> "str", chars |-> toks]
Buffer(name) == [type |-> "buffer", chars |-> <<name>>]

(* Words made only of the characters urlsplit accepts in a scheme *)
SchemeWords == {"http", "https", "ftp", "file", "HTTP", "s3", "s3n", "s3a",
                "S3", "gs", "C"}

(* str.lower() *)
lower(w) == CASE w = "HTTP" -> "http"
              [] w = "S3" -> "s3"
              [] w = "C" -> "c"
              [] OTHER -> w

Specifiers ==
    {Str(<<w, ":", "//", "host", "/data", ".csv">>) : w \in SchemeWords \ {"C"}}
    \cup {Str(<<"s3", ":", "//", "bucket", "/key", ".gz">>),
          Str(<<"C", ":", "\\data", ".csv">>),
          Str(<<"/tmp", "/data", ".csv">>),
          Str(<<"/tmp", "/a", ":", "b">>),
          Str(<<":", "/data">>),
          Str(<<"http", ":", "//", "[host", "/data">>),
          Str(<<"~", "/data", ".csv">>),
          Str(<<>>),
          Buffer("StringIO")}

(* urllib's scheme lists *)
uses_relative == {"ftp", "http", "gopher", "nntp", "imap", "wais", "file",
                  "https", "shttp", "mms", "prospero", "rtsp", "rtspu", "",
                  "sftp", "svn", "svn+ssh"}
uses_netloc == {"ftp", "http", "gopher", "nntp", "telnet", "imap", "wais",
                "file", "mms", "https", "shttp", "snews", "prospero", "rtsp",
                "rtspu", "rsync", "", "svn", "svn+ssh", "sftp", "nfs", "git",
                "git+ssh"}
uses_params == {"ftp", "hdl", "prospero", "http", "imap", "https", "shttp",
                "rtsp", "rtspu", "sip", "sips", "mms", "", "sftp", "tel"}

(* a scheme set to which s3 was added *)
valid_urls_with_s3 == ((uses_relative \cup uses_netloc \cup uses_params) \ {""})
                      \cup {"s3"}

(* a scheme set from which the empty scheme was not discarded *)
valid_urls_with_empty == uses_relative \cup uses_netloc \cup uses_params

_VALID_URLS == (uses_relative \cup uses_netloc \cup uses_params) \ {""}

(* Network locations urlsplit rejects: "[" without "]" *)
BadNetlocs == {"[host"}

(* parse_url: raises on an object that is no string and on a string whose  *)
(* network location is malformed; the scheme is the lower-cased text       *)
(* before the first ":" when that text is not empty and made of scheme     *)
(* characters only, and is empty otherwise; the network location follows   *)
(* "//", the path is what is left.                                         *)
parse_url(url) ==
    IF url.type # "str"
    THEN [raised |-> TRUE, scheme |-> "", netloc |-> "", path |-> <<>>]
    ELSE LET c == url.chars
             colons == {i \in 1..Len(c) : c[i] = ":"}
             first == IF colons = {} THEN 0
                      ELSE CHOOSE i \in colons : \A j \in colons : i <= j
             scheme == IF first = 2 /\ c[1] \in SchemeWords THEN lower(c[1])
                       ELSE ""
             rest == IF scheme = "" THEN c ELSE SubSeq(c, 3, Len(c))
             hasloc == Len(rest) >= 2 /\ rest[1] = "//"
         IN IF hasloc /\ rest[2] \in BadNetlocs
            THEN [raised |-> TRUE, scheme |-> "", netloc |-> "", path |-> <<>>]
            ELSE [raised |-> FALSE, scheme |-> scheme,
                  netloc |-> IF hasloc THEN rest[2] ELSE "",
                  path |-> IF hasloc THEN SubSeq(rest, 3, Len(rest)) ELSE rest]

_is_url(url) ==
    LET p == parse_url(url)
    IN IF p.raised THEN FALSE ELSE p.scheme \in _VALID_URLS

_is_s3_url(url) ==
    LET p == parse_url(url)
    IN IF p.raised THEN FALSE ELSE p.scheme \in {"s3", "s3n", "s3a"}

(* filepath_or_buffer.endswith(".gz") *)
endswith_gz(url) == url.chars # <<>> /\ Last(url.chars) = ".gz"

(* os.path.expanduser behind isinstance(filepath_or_buffer, string_types) *)
_expand_user(fob) ==
    IF fob.type = "str"
    THEN IF fob.chars # <<>> /\ fob.chars[1] = "~"
         THEN Str(<<"/home/user">> \o Tail(fob.chars))
         ELSE fob
    ELSE fob

----------------------------------------------------------------------------
(* maybe_read_encoded_stream over a reader whose read() returns body.      *)
(* reads counts the calls of reader.read().                                *)

(* a policy that is 'strict' whether or not an encoding was given *)
decode_policy_always_strict(enc) ==
    [errors |-> "strict", encoding |-> IF enc # None THEN enc ELSE "utf-8"]

(* the error policy and the encoding of the decoding branch *)
decode_policy(enc) ==
    IF enc # None THEN [errors |-> "strict", encoding |-> enc]
    ELSE [errors |-> "replace", encoding |-> "utf-8"]

(* a raw-bytes branch that never reads the reader *)
raw_stream_never_reads(body, comp) ==
    [raised |-> FALSE, reads |-> 0, encoding |-> None,
     reader |-> [type |-> "response", data |-> body]]

(* the branch of a runtime without distinct bytes and text, no encoding    *)
(* given: gzip bytes are read into a BytesIO, anything else is the reader  *)
(* itself, not read.                                                       *)
raw_stream(body, comp) ==
    IF comp = "gzip"
    THEN [raised |-> FALSE, reads |-> 1, encoding |-> None,
          reader |-> [type |-> "BytesIO", data |-> body]]
    ELSE [raised |-> FALSE, reads |-> 0, encoding |-> None,
          reader |-> [type |-> "response", data |-> body]]

maybe_read_encoded_stream(body, enc, comp, py3) ==
    IF py3 \/ enc # None
    THEN LET policy == decode_policy(enc)
             e == policy.encoding
             d == decode(body, policy.errors)
         IN IF comp = "gzip"
            THEN [raised |-> FALSE, reads |-> 1, encoding |-> e,
                  reader |-> [type |-> "BytesIO", data |-> body]]
            ELSE IF ~d.ok
            THEN [raised |-> TRUE, reads |-> 1, encoding |-> e,
                  reader |-> [type |-> "none", data |-> <<>>]]
            ELSE [raised |-> FALSE, reads |-> 1, encoding |-> e,
                  reader |-> [type |-> "StringIO", data |-> d.text]]
    ELSE raw_stream(body, comp)

----------------------------------------------------------------------------
(* get_filepath_or_buffer.  env holds what the collaborators answer:       *)
(* urlopen, header, body (HTTP); boto, auth, anon, open, fetch (S3).       *)

Call(fn, arg, ret) == [fn |-> fn, arg |-> arg, ret |-> ret]

NoSource == [type |-> "none", data |-> <<>>]

Return(calls, source, enc, comp) ==
    [phase |-> "returned", calls |-> calls, source |-> source,
     encoding |-> enc, compression |-> comp, error |-> None]

Raise(calls, error) ==
    [phase |-> "raised", calls |-> calls, source |-> NoSource,
     encoding |-> None, compression |-> None, error |-> error]

(* compression inference that leaves 'infer' when the header is not gzip *)
infer_compression_keeps_infer(comp, header) ==
    IF comp = "infer" /\ header = "gzip" THEN "gzip" ELSE comp

(* compression inference that takes any Content-Encoding header for gzip *)
infer_compression_any_header(comp, header) ==
    IF comp = "infer"
    THEN IF header # None THEN "gzip" ELSE None
    ELSE comp

(* the compression the URL branch resolves, from the Content-Encoding      *)
(* header when the caller asked for 'infer'                                *)
infer_compression(comp, header) ==
    IF comp = "infer"
    THEN IF header = "gzip" THEN "gzip" ELSE None
    ELSE comp

(* the URL branch *)
url_branch(fob, enc, comp, env, py3) ==
    IF env.urlopen # "ok"
    THEN Raise(<<Call("urlopen", "", env.urlopen)>>, env.urlopen)
    ELSE LET consulted == IF comp = "infer"
                          THEN <<Call("headers.get", "Content-Encoding", env.header)>>
                          ELSE <<>>
             c == infer_compression(comp, env.header)
             m == maybe_read_encoded_stream(env.body, enc, c, py3)
             calls == <<Call("urlopen", "", "ok")>> \o consulted
                      \o <<Call("maybe_read_encoded_stream", c, "")>>
         IN IF m.raised THEN Raise(calls, "UnicodeDecodeError")
            ELSE Return(calls, m.reader, m.encoding, c)

(* connecting with a handler that catches every error *)
connect_catches_all(env) ==
    IF env.auth = "ok"
    THEN [ok |-> TRUE, error |-> None, calls |-> <<Call("connect_s3", "auth", "ok")>>]
    ELSE [ok |-> env.anon = "ok", error |-> env.anon,
          calls |-> <<Call("connect_s3", "auth", env.auth),
                      Call("connect_s3", "anon", env.anon)>>]

(* boto.connect_s3(), and boto.connect_s3(anon=True) on NoAuthHandlerFound *)
connect(env) ==
    IF env.auth = "ok"
    THEN [ok |-> TRUE, error |-> None, calls |-> <<Call("connect_s3", "auth", "ok")>>]
    ELSE IF env.auth = "NoAuthHandlerFound"
    THEN [ok |-> env.anon = "ok", error |-> env.anon,
          calls |-> <<Call("connect_s3", "auth", env.auth),
                      Call("connect_s3", "anon", env.anon)>>]
    ELSE [ok |-> FALSE, error |-> env.auth,
          calls |-> <<Call("connect_s3", "auth", env.auth)>>]

(* an adapter handed out without the open *)
open_adapter_lazily(enc, env) ==
    [ok |-> TRUE, error |-> None,
     calls |-> <<Call("BotoFileLikeReader", enc, "")>>,
     source |-> [type |-> "BotoFileLikeReader", data |-> <<>>]]

(* k = BotoFileLikeReader(b, path, encoding=encoding); k.open('r') *)
open_adapter(enc, env) ==
    [ok |-> env.open = "ok",
     error |-> env.open,
     calls |-> <<Call("BotoFileLikeReader", enc, ""), Call("open", "r", env.open)>>,
     source |-> [type |-> "BotoFileLikeReader", data |-> <<>>]]

(* k = boto.s3.key.Key(b, path); BytesIO(k.get_contents_as_string(...)) *)
fetch_whole(enc, env) ==
    [ok |-> env.fetch = "ok",
     error |-> env.fetch,
     calls |-> <<Call("Key", "", ""), Call("get_contents_as_string", enc, env.fetch)>>,
     source |-> [type |-> "BytesIO", data |-> env.body]]

(* the S3 branch once boto is imported: connect, look the bucket up, and  *)
(* fetch the whole object or open an adapter                               *)
s3_with_boto(fob, enc, comp, env, py3) ==
    LET imported == <<Call("import boto", "", "ok")>>
        conn == connect(env)
        bucket == <<Call("get_bucket", parse_url(fob).netloc, "ok")>>
        k == IF ~py3 /\ (comp = "gzip" \/ (comp = "infer" /\ endswith_gz(fob)))
             THEN fetch_whole(enc, env)
             ELSE open_adapter(enc, env)
    IN IF ~conn.ok THEN Raise(imported \o conn.calls, conn.error)
       ELSE IF ~k.ok THEN Raise(imported \o conn.calls \o bucket \o k.calls, k.error)
       ELSE Return(imported \o conn.calls \o bucket \o k.calls, k.source, None, comp)

(* an S3 branch that finds boto missing only when it connects *)
s3_branch_imports_late(fob, enc, comp, env, py3) ==
    IF ~env.boto
    THEN Raise(<<Call("get_bucket", parse_url(fob).netloc, "ok"),
                 Call("import boto", "", "ImportError")>>, "ImportError")
    ELSE s3_with_boto(fob, enc, comp, env, py3)

(* the S3 branch *)
s3_branch(fob, enc, comp, env, py3) ==
    IF ~env.boto THEN Raise(<<Call("import boto", "", "ImportError")>>, "ImportError")
    ELSE s3_with_boto(fob, enc, comp, env, py3)

(* a local branch that hands the caller's encoding back *)
local_branch_keeps_encoding(fob, enc, comp) ==
    Return(<<>>, [type |-> "passthru", data |-> _expand_user(fob)], enc, comp)

(* the local branch: a path or a buffer *)
local_branch(fob, enc, comp) ==
    Return(<<>>, [type |-> "passthru", data |-> _expand_user(fob)], None, comp)

get_filepath_or_buffer(fob, enc, comp, env, py3) ==
    IF _is_url(fob) THEN url_branch(fob, enc, comp, env, py3)
    ELSE IF _is_s3_url(fob) THEN s3_branch(fob, enc, comp, env, py3)
    ELSE local_branch(fob, enc, comp)

----------------------------------------------------------------------------
(* The adapter as a state machine *)

Encodings == {None, "utf-8"}

Contents ==
    {c \in UNION {[1..n -> Bytes] : n \in 0..MaxLen} : decode(c, "strict").ok}

Install(o) ==
    /\ finished_read' = o.finished_read
    /\ buffer' = o.buffer
    /\ lines' = o.lines
    /\ resp' = o.resp
    /\ pos' = o.pos
    /\ nativeReads' = o.nativeReads
    /\ closed' = o.closed
    /\ fetched' = o.fetched
    /\ lineText' = o.lineText
    /\ lineBytes' = o.lineBytes
    /\ readAfterClose' = o.readAfterClose
    /\ closeCalled' = o.closeCalled

Snapshot == [finished_read |-> finished_read, buffer |-> buffer, lines |-> lines,
             nativeReads |-> nativeReads, closeCalled |-> closeCalled,
             eos |-> eos, nfetched |-> Len(fetched), lineText |-> lineText,
             lineBytes |-> lineBytes]

(* BotoFileLikeReader.__init__, on a key that was or was not opened yet *)
InitAdapter ==
    /\ PY3 \in BOOLEAN
    /\ \E kw \in Encodings : encoding = IF kw = None /\ PY3 THEN "utf-8" ELSE kw
    /\ \/ content \in Contents /\ cuts \in SUBSET (1..(Len(content) - 1))
       \/ content = ExampleContent /\ \E k \in 1..(Len(content) - 1) : cuts = {k}
    /\ resp \in {"none", "open"}
    /\ pos = 0
    /\ finished_read = FALSE
    /\ buffer = <<>>
    /\ lines = <<>>
    /\ nativeReads = 0
    /\ closed = FALSE
    /\ fetched = <<>>
    /\ lineText = <<>>
    /\ lineBytes = <<>>
    /\ readAfterClose = FALSE
    /\ closeCalled = FALSE
    /\ lastOp = "none"
    /\ lastResult = NoResult
    /\ delivered = <<>>
    /\ eos = FALSE
    /\ pre = Snapshot
    /\ onlyReadline = TRUE

Called(op) ==
    /\ nativeReads < MaxNativeReads
    /\ lastOp' = op
    /\ pre' = Snapshot
    /\ UNCHANGED <<PY3, encoding, content, cuts, resolverVars>>

Read ==
    \E n \in {1, ChunkSize} :
        LET r == read(Obj, n)
        IN /\ Called("read")
           /\ Install(r.obj)
           /\ lastResult' = BytesResult(r.data)
           /\ onlyReadline' = FALSE
           /\ UNCHANGED <<delivered, eos>>

Close ==
    \E ok \in BOOLEAN :
        LET r == close(Obj, ok)
        IN /\ Called("close")
           /\ Install(r.obj)
           /\ lastResult' = r.res
           /\ onlyReadline' = FALSE
           /\ UNCHANGED <<delivered, eos>>

Lines(op) ==
    \E r \in {readline(Obj, MaxDepth)} :
       /\ Called(op)
       /\ Install(r.obj)
       /\ lastResult' = r.res
       /\ delivered' = IF r.res.kind = "text" THEN Append(delivered, r.res.val)
                       ELSE delivered
       /\ eos' = (eos \/ r.res.kind = "StopIteration")

Readline == Lines("readline") /\ UNCHANGED onlyReadline

NextLine == Lines("next") /\ onlyReadline' = FALSE

Next == Read \/ Close \/ Readline \/ NextLine

(* No module-level call is in progress. *)
IdleResolver ==
    /\ rPhase = "idle"
    /\ rOp = "none"
    /\ rSpec = Buffer("StringIO")
    /\ rEncoding = None
    /\ rCompression = None
    /\ rCalls = <<>>
    /\ rResult = [source |-> NoSource, encoding |-> None, compression |-> None,
                  error |-> None]

Init == InitAdapter /\ IdleResolver

Spec == Init /\ [][Next]_vars

(* A caller that does nothing but call readline(), again and again: the    *)
(* loop "while True: reader.readline()" keeps taking its step, hence the   *)
(* weak fairness on Readline.                                              *)
NextReadlineOnly == Readline

SpecReadlineOnly == Init /\ [][NextReadlineOnly]_vars /\ WF_vars(Readline)

----------------------------------------------------------------------------
(* The module-level functions, each applied once to arguments and to       *)
(* collaborator answers drawn from small sets                              *)

Compressions == {None, "gzip", "infer"}

Bodies == {<<>>, <<97, NL>>, <<195, 169>>, <<195>>}

(* What the HTTP opener can answer *)
HttpEnvs == [urlopen : {"ok", "URLError"},
             header : {None, "gzip", "deflate"},
             body : Bodies,
             boto : {TRUE}, auth : {"ok"}, anon : {"ok"}, open : {"ok"},
             fetch : {"ok"}]

(* What the S3 client can answer *)
S3Envs == [urlopen : {"ok"}, header : {None},
           body : Bodies,
           boto : BOOLEAN,
           auth : {"ok", "NoAuthHandlerFound", "BotoClientError"},
           anon : {"ok", "BotoClientError"},
           open : {"ok", "S3ResponseError"},
           fetch : {"ok", "S3ResponseError"}]

(* The collaborators a call on fob can reach *)
Envs(fob) == IF _is_url(fob) THEN HttpEnvs ELSE S3Envs

InitResolver ==
    /\ PY3 \in BOOLEAN
    /\ encoding = None
    /\ content = <<>>
    /\ cuts = {}
    /\ resp = "none"
    /\ pos = 0
    /\ finished_read = FALSE
    /\ buffer = <<>>
    /\ lines = <<>>
    /\ nativeReads = 0
    /\ closed = FALSE
    /\ fetched = <<>>
    /\ lineText = <<>>
    /\ lineBytes = <<>>
    /\ readAfterClose = FALSE
    /\ closeCalled = FALSE
    /\ lastOp = "none"
    /\ lastResult = NoResult
    /\ delivered = <<>>
    /\ eos = FALSE
    /\ pre = Snapshot
    /\ onlyReadline = TRUE
    /\ rPhase = "idle"
    /\ rOp = "none"
    /\ rSpec \in Specifiers
    /\ rEncoding \in Encodings
    /\ rCompression \in Compressions
    /\ rCalls = <<>>
    /\ rResult = [source |-> NoSource, encoding |-> None, compression |-> None,
                  error |-> None]

GetFilepathOrBuffer ==
    /\ rPhase = "idle"
    /\ \E env \in Envs(rSpec) :
           LET r == get_filepath_or_buffer(rSpec, rEncoding, rCompression, env, PY3)
           IN /\ rPhase' = r.phase
              /\ rCalls' = r.calls
              /\ rResult' = [source |-> r.source, encoding |-> r.encoding,
                             compression |-> r.compression, error |-> r.error]
    /\ rOp' = "get_filepath_or_buffer"
    /\ UNCHANGED <<rSpec, rEncoding, rCompression, adapterVars>>

MaybeReadEncodedStream ==
    /\ rPhase = "idle"
    /\ \E body \in Bodies :
           LET m == maybe_read_encoded_stream(body, rEncoding, rCompression, PY3)
           IN /\ rPhase' = IF m.raised THEN "raised" ELSE "returned"
              /\ rCalls' = [i \in 1..m.reads |-> Call("read", "", body)]
              /\ rResult' = [source |-> m.reader, encoding |-> m.encoding,
                             compression |-> rCompression,
                             error |-> IF m.raised THEN "UnicodeDecodeError" ELSE None]
    /\ rOp' = "maybe_read_encoded_stream"
    /\ UNCHANGED <<rSpec, rEncoding, rCompression, adapterVars>>

NextResolver == GetFilepathOrBuffer \/ MaybeReadEncodedStream

SpecResolver == InitResolver /\ [][NextResolver]_vars

----------------------------------------------------------------------------
(* Claims about the adapter, checked under Spec *)

IsReadlineOp == lastOp \in {"readline", "next"}

(* C1: after close() has been called on the adapter, every read() returns  *)
(* the empty byte string and issues no call of the key's native read.      *)
C1_ReadAfterCloseIsEmpty ==
    (lastOp = "read" /\ pre.closeCalled)
        => lastResult = BytesResult(<<>>) /\ nativeReads = pre.nativeReads

(* A read() was called after a close() that left bytes of the object unread. *)
C1_Witness ==
    /\ lastOp = "read"
    /\ pre.closeCalled
    /\ Len(fetched) < Len(content)
    /\ lastResult = BytesResult(<<>>)

(* C2: over every sequence of read(), readline(), next() and close(), no   *)
(* native read is issued after the key has been closed, so the bytes the   *)
(* key has delivered are a prefix of the object: it is read through at     *)
(* most once and no byte is delivered twice.                               *)
C2_NoNativeReadAfterClose ==
    /\ ~readAfterClose
    /\ IsPrefix(fetched, content)
    /\ closed => finished_read

(* The object was read through, the key closed itself, and a further       *)
(* readline() was called on the finished adapter.                          *)
C2_Witness ==
    /\ closed
    /\ content # <<>>
    /\ fetched = content
    /\ IsReadlineOp
    /\ pre.finished_read

(* The text readline() works on, and its newline split without a final     *)
(* empty segment.                                                          *)
ContentText == IF encoding # None THEN decode(content, "strict").text ELSE content

ExpectedLines ==
    LET segs == split(ContentText)
    IN IF Last(segs) = <<>> THEN Front(segs) ELSE segs

(* C3: for every content and every way of cutting it into chunks,          *)
(* successive readline() calls return the newline split of the content in  *)
(* order, the final empty segment left out, and then end-of-sequence.      *)
C3_ReadlineSplitsContent ==
    onlyReadline =>
        /\ lastResult.kind \in {"none", "text", "StopIteration"}
        /\ IsPrefix(delivered, ExpectedLines)
        /\ eos => delivered = ExpectedLines

(* C4: once the adapter is finished, readline() issues no native read: it  *)
(* hands out the entries of lines in order, then a non-empty residual      *)
(* buffer once, leaving buffer empty, then signals end-of-sequence.        *)
C4_FinishedReadlineDrains ==
    (IsReadlineOp /\ pre.finished_read) =>
        /\ nativeReads = pre.nativeReads
        /\ IF pre.lines # <<>>
           THEN /\ lastResult = TextResult(Head(pre.lines))
                /\ lines = Tail(pre.lines)
                /\ buffer = pre.buffer
           ELSE IF pre.buffer # <<>>
           THEN /\ lastResult = TextResult(pre.buffer)
                /\ lines = <<>>
                /\ buffer = <<>>
           ELSE /\ lastResult = Raised("StopIteration")
                /\ lines = <<>>
                /\ buffer = <<>>

(* A finished adapter handed out its residual buffer after a close() that  *)
(* came while a line was still pending.                                    *)
C4_Witness ==
    /\ IsReadlineOp
    /\ pre.finished_read
    /\ pre.lines = <<>>
    /\ pre.buffer # <<>>
    /\ lastResult = TextResult(pre.buffer)
    /\ buffer = <<>>
    /\ Len(delivered) >= 3
    /\ Len(fetched) < Len(content)

----------------------------------------------------------------------------
(* Claims about get_filepath_or_buffer, checked under SpecResolver *)

CallsOf(fn) == SelectSeq(rCalls, LAMBDA c : c.fn = fn)

Resolved == rOp = "get_filepath_or_buffer" /\ rPhase # "idle"
ResolvedOk == rOp = "get_filepath_or_buffer" /\ rPhase = "returned"

UrlOpened == CallsOf("urlopen") # <<>> /\ CallsOf("urlopen")[1].ret = "ok"

(* C5 as stated: for every specifier and every input compression, the      *)
(* compression of the returned triple is never 'infer'.                    *)
C5_NeverInfer == ResolvedOk => rResult.compression # "infer"

(* C5 as amended: the returned compression is never 'infer' for a generic  *)
(* URL; for an S3 URL, a local path or a buffer it is 'infer' exactly when *)
(* 'infer' was passed in.                                                  *)
C5_InferOnlyOffUrlBranch ==
    ResolvedOk =>
        (rResult.compression = "infer"
            <=> (rCompression = "infer" /\ ~_is_url(rSpec)))

(* A generic URL was resolved with compression='infer' and no gzip header. *)
C5_Witness ==
    /\ ResolvedOk
    /\ _is_url(rSpec)
    /\ rCompression = "infer"
    /\ rResult.compression = None

(* The compression the URL branch must resolve, given the header it read. *)
ResolvedCompression ==
    IF rCompression = "infer"
    THEN IF CallsOf("headers.get")[1].ret = "gzip" THEN "gzip" ELSE None
    ELSE rCompression

(* C6: on the URL branch with compression='infer' the returned compression *)
(* is 'gzip' exactly when the Content-Encoding header equals 'gzip' and    *)
(* None otherwise; with None or 'gzip' passed in it equals the input; and  *)
(* the resolved compression is the one passed to the normaliser.           *)
C6_UrlCompressionFromHeader ==
    (Resolved /\ _is_url(rSpec) /\ UrlOpened) =>
        /\ Len(CallsOf("headers.get")) = IF rCompression = "infer" THEN 1 ELSE 0
        /\ Len(CallsOf("maybe_read_encoded_stream")) = 1
        /\ CallsOf("maybe_read_encoded_stream")[1].arg = ResolvedCompression
        /\ rPhase = "returned" => rResult.compression = ResolvedCompression

(* 'infer' was resolved to None against a header that is present but is    *)
(* not gzip.                                                               *)
C6_Witness ==
    /\ ResolvedOk
    /\ _is_url(rSpec)
    /\ rCompression = "infer"
    /\ CallsOf("headers.get") # <<>>
    /\ CallsOf("headers.get")[1].ret = "deflate"
    /\ rResult.compression = None

OffUrlBranchTriple ==
    (rPhase = "returned" /\ ~_is_url(rSpec)) =>
        /\ rResult.encoding = None
        /\ rResult.compression = rCompression

(* C7 as stated: the normaliser is invoked if and only if the specifier is *)
(* a generic URL; off the URL branch the returned encoding is None and the *)
(* returned compression is the input.                                      *)
C7_NormalizerIffUrl ==
    Resolved =>
        /\ CallsOf("maybe_read_encoded_stream") # <<>> <=> _is_url(rSpec)
        /\ OffUrlBranchTriple

(* C7 as amended: the normaliser is invoked if and only if the specifier   *)
(* is a generic URL and the HTTP open succeeded; the rest as stated.       *)
C7_NormalizerIffUrlOpened ==
    Resolved =>
        /\ CallsOf("maybe_read_encoded_stream") # <<>>
               <=> (_is_url(rSpec) /\ UrlOpened)
        /\ OffUrlBranchTriple

(* A local path was resolved with an encoding and 'infer' passed in. *)
C7_Witness ==
    /\ ResolvedOk
    /\ ~_is_url(rSpec)
    /\ ~_is_s3_url(rSpec)
    /\ rSpec.type = "str"
    /\ rEncoding # None
    /\ rCompression = "infer"
    /\ rResult.encoding = None
    /\ rResult.compression = "infer"
    /\ rCalls = <<>>

(* C8: the S3 branch connects with credentials first; it connects          *)
(* anonymously only after that attempt raised NoAuthHandlerFound, and at   *)
(* most once; any other error of the first attempt and any error of the    *)
(* anonymous attempt ends the call with that error and no further call.    *)
C8_AnonymousOnlyAfterNoAuth ==
    Resolved =>
        LET cs == CallsOf("connect_s3")
        IN /\ Len(cs) <= 2
           /\ CallsOf("import boto") # <<>> /\ CallsOf("import boto")[1].ret = "ok"
                  => Len(cs) >= 1
           /\ Len(cs) >= 1 => cs[1].arg = "auth"
           /\ Len(cs) = 1 => cs[1].ret # "NoAuthHandlerFound"
           /\ Len(cs) = 2 => cs[1].ret = "NoAuthHandlerFound" /\ cs[2].arg = "anon"
           /\ (Len(cs) >= 1 /\ Last(cs).ret # "ok")
                  => /\ rPhase = "raised"
                     /\ rResult.error = Last(cs).ret
                     /\ Last(rCalls) = Last(cs)
           /\ CallsOf("get_bucket") # <<>> => Len(cs) >= 1 /\ Last(cs).ret = "ok"

(* The anonymous connection was made after NoAuthHandlerFound, and the     *)
(* call returned.                                                          *)
C8_Witness ==
    /\ ResolvedOk
    /\ Len(CallsOf("connect_s3")) = 2
    /\ CallsOf("connect_s3")[1].ret = "NoAuthHandlerFound"
    /\ CallsOf("connect_s3")[2].ret = "ok"

(* C9: whenever the call returns a BotoFileLikeReader, open was invoked on *)
(* it before the return; when that open fails the call fails with the      *)
(* open's error and returns no adapter.                                    *)
C9_AdapterOpenedEagerly ==
    Resolved =>
        LET os == CallsOf("open")
        IN /\ CallsOf("BotoFileLikeReader") # <<>> => Len(os) = 1
           /\ (rPhase = "returned" /\ rResult.source.type = "BotoFileLikeReader")
                  => Len(os) = 1 /\ os[1].ret = "ok"
           /\ (os # <<>> /\ os[1].ret # "ok")
                  => /\ rPhase = "raised"
                     /\ rResult.error = os[1].ret
                     /\ rResult.source = NoSource

(* The open of the adapter failed and the call raised. *)
C9_Witness ==
    /\ Resolved
    /\ rPhase = "raised"
    /\ CallsOf("open") # <<>>
    /\ CallsOf("open")[1].ret = "S3ResponseError"

(* The specifier is a string whose scheme is s3, s3n or s3a. *)
HasS3Scheme ==
    /\ rSpec.type = "str"
    /\ Len(rSpec.chars) >= 2
    /\ rSpec.chars[2] = ":"
    /\ lower(rSpec.chars[1]) \in {"s3", "s3n", "s3a"}

(* C10: at most one of _is_url and _is_s3_url is true of a specifier; a    *)
(* string whose scheme is s3, s3n or s3a makes _is_s3_url true and _is_url *)
(* false, so it is handled by the S3 branch and never given to the HTTP    *)
(* opener.                                                                 *)
C10_S3UrlIsNoUrl ==
    /\ ~(_is_url(rSpec) /\ _is_s3_url(rSpec))
    /\ HasS3Scheme => _is_s3_url(rSpec) /\ ~_is_url(rSpec)
    /\ (Resolved /\ HasS3Scheme)
           => CallsOf("urlopen") = <<>> /\ CallsOf("import boto") # <<>>

(* An S3 URL written with an upper-case scheme was resolved to an adapter. *)
C10_Witness ==
    /\ ResolvedOk
    /\ HasS3Scheme
    /\ rSpec.chars[1] = "S3"
    /\ rResult.source.type = "BotoFileLikeReader"
    /\ CallsOf("urlopen") = <<>>

(* The specifier does not parse, or parses to no scheme. *)
NoScheme == parse_url(rSpec).raised \/ parse_url(rSpec).scheme = ""

(* C11: _is_url and _is_s3_url never raise: when parsing the specifier     *)
(* fails or yields no scheme both are false, and get_filepath_or_buffer    *)
(* takes the local branch and calls no HTTP or S3 backend; a specifier     *)
(* that is no string is returned as it is, and so is a string without a    *)
(* leading ~.                                                              *)
C11_UnparsableIsLocal ==
    /\ _is_url(rSpec) \in BOOLEAN
    /\ _is_s3_url(rSpec) \in BOOLEAN
    /\ NoScheme =>
           /\ ~_is_url(rSpec)
           /\ ~_is_s3_url(rSpec)
           /\ Resolved =>
                  /\ rPhase = "returned"
                  /\ rCalls = <<>>
                  /\ rResult.source.type = "passthru"
                  /\ rSpec.type # "str" => rResult.source.data = rSpec
                  /\ (rSpec.type = "str"
                          /\ (rSpec.chars = <<>> \/ rSpec.chars[1] # "~"))
                         => rResult.source.data = rSpec

(* A string that urlsplit rejects was resolved as a local path. *)
C11_Witness ==
    /\ ResolvedOk
    /\ rSpec.type = "str"
    /\ parse_url(rSpec).raised
    /\ rResult.source.data = rSpec
    /\ rCalls = <<>>

----------------------------------------------------------------------------
(* Claims about maybe_read_encoded_stream, checked under SpecResolver *)

Normalized == rOp = "maybe_read_encoded_stream" /\ rPhase # "idle"

(* The body the reader's read() returned to the call. *)
BodyRead == rCalls[1].ret

(* C12: the decode-error policy is 'strict' exactly when the caller gave   *)
(* an encoding, and otherwise the encoding defaults to 'utf-8' with policy *)
(* 'replace': with no encoding and no compression on a text-decoding       *)
(* runtime the returned encoding is 'utf-8' and no byte content makes the  *)
(* call fail, while with an encoding given an undecodable body makes the   *)
(* call fail.                                                              *)
C12_StrictIffEncodingGiven ==
    Normalized =>
        /\ rPhase = "raised" => rEncoding # None /\ rResult.error = "UnicodeDecodeError"
        /\ (PY3 /\ rEncoding = None) =>
               /\ rPhase = "returned"
               /\ rResult.encoding = "utf-8"
               /\ rCompression # "gzip" =>
                      rResult.source = [type |-> "StringIO",
                                        data |-> decode(BodyRead, "replace").text]
        /\ (rEncoding # None /\ rCompression # "gzip") =>
               /\ rPhase = "raised" <=> ~decode(BodyRead, "strict").ok
               /\ rPhase = "returned" =>
                      /\ rResult.encoding = rEncoding
                      /\ rResult.source = [type |-> "StringIO",
                                           data |-> decode(BodyRead, "strict").text]

(* An undecodable body was normalised without an encoding and without      *)
(* compression: the bad byte came back as U+FFFD.                          *)
C12_Witness ==
    /\ Normalized
    /\ PY3
    /\ rEncoding = None
    /\ rCompression = None
    /\ rPhase = "returned"
    /\ ~decode(BodyRead, "strict").ok
    /\ rResult.encoding = "utf-8"
    /\ rResult.source.data = <<65533>>

----------------------------------------------------------------------------
(* Further claims about get_filepath_or_buffer, checked under SpecResolver *)

(* C13: for an S3 URL with the S3 client library missing, the call fails   *)
(* with ImportError before any connection attempt, bucket lookup or        *)
(* adapter construction.                                                   *)
C13_ImportErrorFirst ==
    Resolved =>
        /\ (_is_s3_url(rSpec) /\ ~_is_url(rSpec)) =>
               rCalls # <<>> /\ rCalls[1].fn = "import boto"
        /\ (CallsOf("import boto") # <<>>
                /\ CallsOf("import boto")[1].ret = "ImportError") =>
               /\ rPhase = "raised"
               /\ rResult.error = "ImportError"
               /\ Len(rCalls) = 1
               /\ rResult.source = NoSource

(* An S3 URL was resolved without the S3 client library. *)
C13_Witness ==
    /\ Resolved
    /\ HasS3Scheme
    /\ rPhase = "raised"
    /\ rResult.error = "ImportError"
    /\ rCalls = <<Call("import boto", "", "ImportError")>>

----------------------------------------------------------------------------
(* Further claims about the adapter, checked under Spec *)

(* C14: every close() sets finished_read before it delegates to the key's  *)
(* native close, and delegates on every call: the adapter is finished even *)
(* when the native close fails, and a read() that comes once the flag is   *)
(* set, the key's handle still open or not, short-circuits.                *)
C14_FlagBeforeNativeClose ==
    /\ lastOp = "close" =>
           /\ finished_read
           /\ closeCalled
           /\ \/ lastResult = NoResult /\ resp = "none" /\ closed
              \/ lastResult = Raised("NativeCloseError") /\ resp = "open"
    /\ (lastOp = "read" /\ pre.finished_read) =>
           /\ lastResult = BytesResult(<<>>)
           /\ nativeReads = pre.nativeReads

(* The native close of a reading adapter failed and left the handle open. *)
C14_Witness ==
    /\ lastOp = "close"
    /\ ~pre.finished_read
    /\ lastResult = Raised("NativeCloseError")
    /\ finished_read
    /\ resp = "open"
    /\ Len(fetched) < Len(content)

(* C15: the adapter starts reading (finished_read false); no read,         *)
(* readline, next or close ever turns finished_read from true to false;    *)
(* and a close() on a finished adapter leaves finished_read, lines and     *)
(* buffer as they were.                                                    *)
C15_FinishedIsTerminal ==
    /\ lastOp = "none" => ~finished_read
    /\ pre.finished_read => finished_read
    /\ (lastOp = "close" /\ pre.finished_read) =>
           /\ lines = pre.lines
           /\ buffer = pre.buffer

(* A finished adapter that still holds a line and a residual buffer was    *)
(* closed again.                                                           *)
C15_Witness ==
    /\ lastOp = "close"
    /\ pre.finished_read
    /\ pre.lines # <<>>
    /\ pre.buffer # <<>>
    /\ lines = pre.lines
    /\ buffer = pre.buffer
    /\ finished_read

(* The records of ls written out again, each followed by its newline. *)
RECURSIVE Joined(_)
Joined(ls) == IF ls = <<>> THEN <<>> ELSE Head(ls) \o <<NL>> \o Joined(Tail(ls))

IsSuffix(s, t) == Len(s) <= Len(t) /\ SubSeq(t, Len(t) - Len(s) + 1, Len(t)) = s

HasNewline(t) == \E i \in 1..Len(t) : t[i] = NL

(* C16: in every reachable state no element of lines contains a newline,   *)
(* buffer contains no newline, and lines followed by buffer are, in order, *)
(* the tail of the text readline() has taken in from the backing key: the  *)
(* pending records written out with their newlines, then the fragment, are *)
(* a suffix of that text.                                                  *)
C16_LinesNewlineFreeInArrivalOrder ==
    /\ \A i \in 1..Len(lines) : ~HasNewline(lines[i])
    /\ ~HasNewline(buffer)
    /\ IsSuffix(Joined(lines) \o buffer, lineText)

(* Two different records are pending after a readline() handed one out. *)
C16_Witness ==
    /\ IsReadlineOp
    /\ lastResult.kind = "text"
    /\ Len(lines) >= 1
    /\ lines[1] # lastResult.val
    /\ buffer # <<>>
    /\ HasNewline(lineText)

----------------------------------------------------------------------------
(* Further claims about maybe_read_encoded_stream, checked under           *)
(* SpecResolver                                                            *)

(* The call that takes the else-branch of line 162 without compression. *)
PassThrough == ~PY3 /\ rEncoding = None /\ rCompression # "gzip"

(* C17, as stated: for every combination of encoding, compression and      *)
(* runtime mode the reader's read is called exactly once and what comes    *)
(* back is a buffer holding the whole body, never the original reader.     *)
C17_AlwaysOneEagerRead ==
    Normalized =>
        /\ Len(rCalls) = 1
        /\ rCalls[1].fn = "read"
        /\ rPhase = "returned" => rResult.source.type \in {"BytesIO", "StringIO"}

(* C17, amended: the reader's read is called exactly once, and a buffer    *)
(* holding the whole body (its bytes under gzip, its decoded text          *)
(* otherwise) is returned, in every combination except a raw-bytes runtime *)
(* with no encoding and no gzip compression; there read is not called at   *)
(* all and the original reader comes back un-read with encoding None.      *)
C17_OneEagerReadUnlessPassThrough ==
    Normalized =>
        IF PassThrough
        THEN /\ rCalls = <<>>
             /\ rPhase = "returned"
             /\ rResult.source.type = "response"
             /\ rResult.encoding = None
        ELSE /\ Len(rCalls) = 1
             /\ rCalls[1].fn = "read"
             /\ rPhase = "returned" =>
                    \/ /\ rCompression = "gzip"
                       /\ rResult.source = [type |-> "BytesIO", data |-> BodyRead]
                    \/ /\ rCompression # "gzip"
                       /\ rResult.source.type = "StringIO"
                       /\ \E errors \in {"strict", "replace"} :
                              rResult.source.data = decode(BodyRead, errors).text

(* A raw-bytes runtime read a gzip body once into a byte buffer, no        *)
(* encoding given.                                                         *)
C17_Witness ==
    /\ Normalized
    /\ ~PY3
    /\ rEncoding = None
    /\ rCompression = "gzip"
    /\ rPhase = "returned"
    /\ rCalls = <<Call("read", "", <<97, NL>>)>>
    /\ rResult.source = [type |-> "BytesIO", data |-> <<97, NL>>]
    /\ rResult.encoding = None

----------------------------------------------------------------------------
(* Termination of readline, checked under SpecReadlineOnly *)

(* C18: for a finite object every readline() call completes after          *)
(* finitely many network reads (at most one per byte of the object, and    *)
(* one more that reports the end), and a caller that only calls readline() *)
(* eventually receives end-of-sequence, the adapter having reached         *)
(* finished_read by itself.                                                *)
C18_ReadlineOnlyReachesEnd ==
    /\ [](lastOp = "readline" =>
              /\ lastResult.kind # "RecursionError"
              /\ nativeReads - pre.nativeReads <= Len(content) + 1)
    /\ <>(eos /\ finished_read /\ lastResult = Raised("StopIteration"))

(* A readline-only caller got two records of a non-empty object and then   *)
(* the end of the sequence.                                                *)
C18_Witness ==
    /\ onlyReadline
    /\ lastOp = "readline"
    /\ eos
    /\ finished_read
    /\ content # <<>>
    /\ Len(delivered) >= 2
    /\ nativeReads >= 2

----------------------------------------------------------------------------
(* Claims about interleaved adapter operations, checked under Spec *)

(* C19: end-of-sequence is permanent: once a readline() or next() call has *)
(* signalled it, every later readline() or next() signals it again and     *)
(* every later read() returns empty (fetching nothing), whatever           *)
(* operations come in between.                                             *)
C19_EndOfSequenceIsPermanent ==
    pre.eos =>
        /\ eos
        /\ finished_read
        /\ IsReadlineOp => lastResult = Raised("StopIteration")
        /\ lastOp = "read" =>
               lastResult = BytesResult(<<>>) /\ nativeReads = pre.nativeReads

(* After the end of a non-empty object was signalled, a read() came back   *)
(* empty.                                                                  *)
C19_Witness ==
    /\ pre.eos
    /\ lastOp = "read"
    /\ lastResult = BytesResult(<<>>)
    /\ content # <<>>
    /\ delivered # <<>>

(* What read() and close() leave alone, and what read() hands out: lines,  *)
(* buffer and the text readline() took in are as they were, and the bytes  *)
(* a read() returns are exactly the bytes it fetched, none of which        *)
(* readline() fetched.                                                     *)
ReadCloseFrame ==
    /\ lastOp \in {"read", "close"} =>
           /\ lines = pre.lines
           /\ buffer = pre.buffer
           /\ lineText = pre.lineText
           /\ lineBytes = pre.lineBytes
    /\ lastOp = "read" =>
           lastResult.val = SubSeq(fetched, pre.nfetched + 1, Len(fetched))
    /\ IsReadlineOp =>
           lineBytes = pre.lineBytes \o SubSeq(fetched, pre.nfetched + 1, Len(fetched))

(* C20: read() and close() leave lines and buffer unchanged, a read()      *)
(* returns only bytes it fetched itself, and after any interleaving of     *)
(* read() and readline() calls the records readline() has handed out or    *)
(* holds are the newline split of the chunks readline() itself fetched.    *)
C20_ReadlineSplitsOwnChunks ==
    /\ ReadCloseFrame
    /\ LET own == IF encoding # None THEN decode(lineBytes, "strict")
                  ELSE [ok |-> TRUE, text |-> lineBytes]
       IN own.ok =>
              \/ delivered \o lines \o <<buffer>> = split(own.text)
              \/ /\ finished_read /\ lines = <<>> /\ buffer = <<>>
                 /\ delivered = split(own.text)

====
